---- MODULE Spec2Model ----
(***************************************************************************)
(* wordcount: count(input, option) reads the input line by line and        *)
(* tallies characters, \w+ words or whole lines into a HashMap.            *)
(* Strings are modelled as what they are in Rust: sequences of UTF-8       *)
(* bytes.  A char is a Unicode scalar value (a number).                    *)
(***************************************************************************)
EXTENDS Integers, Sequences, FiniteSets, TLC

\* Longest input, in bytes.
MaxLen == 4

\* The scalar values the inputs are written with: \n, \r, space, '_', 'a',
\* U+00C1 (a two-byte letter) and U+0301 (a two-byte combining mark).
Scalars == {10, 13, 32, 95, 97, 193, 769}

(***************************************************************************)
(* UTF-8 (char::encode_utf8, core::str::from_utf8, str::chars)             *)
(***************************************************************************)

\* c.to_string(): the UTF-8 encoding of one scalar value.
EncodeUtf8(c) ==
  IF c < 128 THEN << c >>
  ELSE IF c < 2048 THEN << 192 + (c \div 64), 128 + (c % 64) >>
  ELSE IF c < 65536 THEN
    << 224 + (c \div 4096), 128 + ((c \div 64) % 64), 128 + (c % 64) >>
  ELSE << 240 + (c \div 262144), 128 + ((c \div 4096) % 64),
          128 + ((c \div 64) % 64), 128 + (c % 64) >>

\* A byte 10xxxxxx.
IsCont(b) == b >= 128 /\ b <= 191

\* The width the first byte of a sequence announces (0: not a first byte).
Utf8CharWidth(b) ==
  IF b < 128 THEN 1
  ELSE IF b >= 194 /\ b <= 223 THEN 2
  ELSE IF b >= 224 /\ b <= 239 THEN 3
  ELSE IF b >= 240 /\ b <= 244 THEN 4
  ELSE 0

\* The range the second byte must lie in (overlong forms, surrogates and
\* values above U+10FFFF are rejected here).
SecondOk(b0, b1) ==
  IF b0 = 224 THEN b1 >= 160 /\ b1 <= 191
  ELSE IF b0 = 237 THEN b1 >= 128 /\ b1 <= 159
  ELSE IF b0 = 240 THEN b1 >= 144 /\ b1 <= 191
  ELSE IF b0 = 244 THEN b1 >= 128 /\ b1 <= 143
  ELSE IsCont(b1)

\* The width of the well-formed sequence starting at s[i], 0 if there is none.
ValidWidthAt(s, i) ==
  LET w == Utf8CharWidth(s[i]) IN
  IF w = 0 \/ i + w - 1 > Len(s) THEN 0
  ELSE IF w = 1 THEN 1
  ELSE IF SecondOk(s[i], s[i + 1])
          /\ \A j \in (i + 2)..(i + w - 1) : IsCont(s[j])
       THEN w
       ELSE 0

\* from_utf8(s).is_ok(), scanning from byte i.
RECURSIVE IsUtf8From(_, _)
IsUtf8From(s, i) ==
  IF i > Len(s) THEN TRUE
  ELSE LET w == ValidWidthAt(s, i) IN
       IF w = 0 THEN FALSE ELSE IsUtf8From(s, i + w)

IsUtf8(s) == IsUtf8From(s, 1)

\* The scalar value of the well-formed sequence of w bytes starting at s[i].
DecodeAt(s, i, w) ==
  IF w = 1 THEN s[i]
  ELSE IF w = 2 THEN (s[i] - 192) * 64 + (s[i + 1] - 128)
  ELSE IF w = 3 THEN
    (s[i] - 224) * 4096 + (s[i + 1] - 128) * 64 + (s[i + 2] - 128)
  ELSE (s[i] - 240) * 262144 + (s[i + 1] - 128) * 4096
       + (s[i + 2] - 128) * 64 + (s[i + 3] - 128)

\* Bytes taken for chars: line.bytes() in place of line.chars().
CharsNextByte(s) == [ch |-> s[1], rest |-> SubSeq(s, 2, Len(s))]

\* Chars::next on the str s: the first char and what is left of s.
CharsNext(s) ==
  LET w == Utf8CharWidth(s[1]) IN
  [ch |-> DecodeAt(s, 1, w), rest |-> SubSeq(s, w + 1, Len(s))]

(***************************************************************************)
(* The regex \w+ (regex crate, Unicode mode)                               *)
(***************************************************************************)

\* General category of the scalar values of the Basic Latin, Latin-1 letters
\* and Combining Diacritical Marks ranges the model draws from.
GeneralCategory(c) ==
  IF c <= 31 THEN "Cc"
  ELSE IF c = 32 THEN "Zs"
  ELSE IF c >= 48 /\ c <= 57 THEN "Nd"
  ELSE IF c >= 65 /\ c <= 90 THEN "Lu"
  ELSE IF c = 95 THEN "Pc"
  ELSE IF c >= 97 /\ c <= 122 THEN "Ll"
  ELSE IF c >= 192 /\ c <= 214 THEN "Lu"
  ELSE IF c >= 768 /\ c <= 879 THEN "Mn"
  ELSE "Po"

\* \w of the regex crate:
\* \p{Alphabetic} + \p{M} + \p{Nd} + \p{Pc} + \p{Join_Control}.
IsWordChar(c) ==
  \/ GeneralCategory(c) \in {"Lu", "Ll", "Lt", "Lm", "Lo", "Nl"}
  \/ GeneralCategory(c) \in {"Mn", "Mc", "Me"}
  \/ GeneralCategory(c) = "Nd"
  \/ GeneralCategory(c) = "Pc"
  \/ c \in {8204, 8205}

\* The byte offset (1-based) of the first char at or after offset i of s that
\* satisfies wordp = IsWordChar, or Len(s) + 1.
RECURSIVE SkipWhile(_, _, _)
SkipWhile(s, i, wordp) ==
  IF i > Len(s) THEN i
  ELSE LET w == Utf8CharWidth(s[i]) IN
       IF IsWordChar(DecodeAt(s, i, w)) = wordp
       THEN SkipWhile(s, i + w, wordp)
       ELSE i

\* The pattern \w in place of \w+: one character per match.
FindOneChar(s) ==
  LET start == SkipWhile(s, 1, FALSE) IN
  [start |-> start,
   end |-> IF start > Len(s) THEN start ELSE start + Utf8CharWidth(s[start])]

\* Regex::find on s for \w+: the leftmost match, taken greedily, as the
\* offsets [start, end) of s; start = end when nothing matches.
Find(s) ==
  LET start == SkipWhile(s, 1, FALSE) IN
  [start |-> start, end |-> SkipWhile(s, start, TRUE)]

(***************************************************************************)
(* BufRead::lines                                                          *)
(***************************************************************************)

\* read_until(b'\n'): the index of the last byte the next read takes from
\* input, the reader standing after byte pos.
RECURSIVE ReadUntil(_, _)
ReadUntil(in, i) ==
  IF i > Len(in) THEN Len(in)
  ELSE IF in[i] = 10 THEN i
  ELSE ReadUntil(in, i + 1)

\* Only "\n" is popped, a "\r" before it stays in the line.
StripNewlineOnly(buf) ==
  IF Len(buf) > 0 /\ buf[Len(buf)] = 10 THEN SubSeq(buf, 1, Len(buf) - 1) ELSE buf

\* Lines::next: the terminator is popped, "\n" and then one "\r".
StripTerminator(buf) ==
  IF Len(buf) > 0 /\ buf[Len(buf)] = 10 THEN
    LET b == SubSeq(buf, 1, Len(buf) - 1) IN
    IF Len(b) > 0 /\ b[Len(b)] = 13 THEN SubSeq(b, 1, Len(b) - 1) ELSE b
  ELSE buf

\* Lines taken as input.split('\n') takes them: the empty input is one
\* empty line.
LinesNextSplit(in, p) ==
  LET e == ReadUntil(in, p + 1)
      buf == SubSeq(in, p + 1, e)
  IN IF Len(buf) = 0 /\ Len(in) > 0 THEN [kind |-> "none", line |-> << >>, pos |-> p]
     ELSE IF ~IsUtf8(buf) THEN [kind |-> "err", line |-> << >>, pos |-> e]
     ELSE [kind |-> "ok", line |-> StripTerminator(buf), pos |-> e]

\* Lines::next, the reader standing after byte p of in:
\* kind "none" (end of stream), "err" (invalid UTF-8) or "ok".
LinesNext(in, p) ==
  LET e == ReadUntil(in, p + 1)
      buf == SubSeq(in, p + 1, e)
  IN IF Len(buf) = 0 THEN [kind |-> "none", line |-> << >>, pos |-> p]
     ELSE IF ~IsUtf8(buf) THEN [kind |-> "err", line |-> << >>, pos |-> e]
     ELSE [kind |-> "ok", line |-> StripTerminator(buf), pos |-> e]

(***************************************************************************)
(* count                                                                   *)
(***************************************************************************)

CountOption == {"Char", "Word", "Line"}

\* The first variant taken as the default.
CountOptionFirst == "Char"

\* impl Default for CountOption
CountOptionDefault == "Word"

\* The caller names no option: it passes CountOption::default().
Unspecified == "Unspecified"

\* HashMap::new()
EmptyMap == << >>

\* freqs.insert(k, 1): a key already present starts again at 1.
BumpOverwrite(f, k) == [x \in (DOMAIN f) \cup {k} |-> IF x = k THEN 1 ELSE f[x]]

\* or_insert(1) followed by += 1: a new key enters with 2.
BumpFromOne(f, k) ==
  IF k \in DOMAIN f THEN [f EXCEPT ![k] = @ + 1]
  ELSE [x \in (DOMAIN f) \cup {k} |-> IF x = k THEN 1 + 1 ELSE f[x]]

\* *freqs.entry(k).or_insert(0) += 1
Bump(f, k) ==
  IF k \in DOMAIN f THEN [f EXCEPT ![k] = @ + 1]
  ELSE [x \in (DOMAIN f) \cup {k} |-> IF x = k THEN 0 + 1 ELSE f[x]]

VARIABLES
  input,    \* the bytes of the stream
  given,    \* the option the caller names, or Unspecified
  option,   \* the option count runs with
  pos,      \* bytes of input consumed by the reader
  line,     \* the line of the current iteration
  rest,     \* what the inner iterator (chars / find_iter) has left of line
  freqs,    \* the map being built
  pc,       \* "lines", "chars", "words", "line", "done", "panicked"
  result    \* {} until count returns, then {the returned map}

vars == << input, given, option, pos, line, rest, freqs, pc, result >>

RECURSIVE SeqsUpTo(_, _)
SeqsUpTo(S, n) ==
  IF n = 0 THEN {<< >>}
  ELSE LET shorter == SeqsUpTo(S, n - 1) IN
       shorter \cup {Append(s, b) : s \in {t \in shorter : Len(t) = n - 1}, b \in S}

\* The bytes the encodings of Scalars are made of.
Bytes == UNION {{EncodeUtf8(c)[i] : i \in 1..Len(EncodeUtf8(c))} : c \in Scalars}

Inputs == SeqsUpTo(Bytes, MaxLen)

Init ==
  /\ input \in Inputs
  /\ given \in CountOption \cup {Unspecified}
  /\ option = (IF given = Unspecified THEN CountOptionDefault ELSE given)
  /\ pos = 0
  /\ line = << >>
  /\ rest = << >>
  /\ freqs = EmptyMap
  /\ pc = "lines"
  /\ result = {}

\* The line buffer is not cleared between reads: each line carries the
\* lines before it.
NextLineOkKeepBuf ==
  /\ pc = "lines"
  /\ LET r == LinesNext(input, pos) IN
     /\ r.kind = "ok"
     /\ pos' = r.pos
     /\ line' = line \o r.line
     /\ rest' = line \o r.line
  /\ pc' = (IF option = "Char" THEN "chars"
            ELSE IF option = "Word" THEN "words" ELSE "line")
  /\ UNCHANGED << input, given, option, freqs, result >>

\* The map is created inside the loop: each line starts from an empty map.
NextLineOkFreshMap ==
  /\ pc = "lines"
  /\ LET r == LinesNext(input, pos) IN
     /\ r.kind = "ok"
     /\ pos' = r.pos
     /\ line' = r.line
     /\ rest' = r.line
  /\ pc' = (IF option = "Char" THEN "chars"
            ELSE IF option = "Word" THEN "words" ELSE "line")
  /\ freqs' = EmptyMap
  /\ UNCHANGED << input, given, option, result >>

\* for line in input.lines() { let line = line.unwrap(); match option { ...
NextLineOk ==
  /\ pc = "lines"
  /\ LET r == LinesNext(input, pos) IN
     /\ r.kind = "ok"
     /\ pos' = r.pos
     /\ line' = r.line
     /\ rest' = r.line
  /\ pc' = (IF option = "Char" THEN "chars"
            ELSE IF option = "Word" THEN "words" ELSE "line")
  /\ UNCHANGED << input, given, option, freqs, result >>

\* The undecodable line is skipped and the loop goes on.
NextLineErrSkip ==
  /\ pc = "lines"
  /\ LET r == LinesNext(input, pos) IN
     /\ r.kind = "err"
     /\ pos' = r.pos
  /\ pc' = "lines"
  /\ UNCHANGED << input, given, option, line, rest, freqs, result >>

\* line.unwrap() on Err: the panic unwinds out of count, freqs is dropped.
NextLineErr ==
  /\ pc = "lines"
  /\ LET r == LinesNext(input, pos) IN
     /\ r.kind = "err"
     /\ pos' = r.pos
  /\ pc' = "panicked"
  /\ UNCHANGED << input, given, option, line, rest, freqs, result >>

\* for c in line.chars() { *freqs.entry(c.to_string()).or_insert(0) += 1; }
CountChar ==
  /\ pc = "chars"
  /\ rest # << >>
  /\ LET n == CharsNext(rest) IN
     /\ freqs' = Bump(freqs, EncodeUtf8(n.ch))
     /\ rest' = n.rest
  /\ UNCHANGED << input, given, option, pos, line, pc, result >>

CharsEnd ==
  /\ pc = "chars"
  /\ rest = << >>
  /\ pc' = "lines"
  /\ UNCHANGED << input, given, option, pos, line, rest, freqs, result >>

\* for m in re.find_iter(&line) { ... m.as_str().to_string() ... }
CountWord ==
  /\ pc = "words"
  /\ LET m == Find(rest) IN
     /\ m.start < m.end
     /\ freqs' = Bump(freqs, SubSeq(rest, m.start, m.end - 1))
     /\ rest' = SubSeq(rest, m.end, Len(rest))
  /\ UNCHANGED << input, given, option, pos, line, pc, result >>

WordsEnd ==
  /\ pc = "words"
  /\ LET m == Find(rest) IN m.start = m.end
  /\ pc' = "lines"
  /\ UNCHANGED << input, given, option, pos, line, rest, freqs, result >>

\* Line => *freqs.entry(line.to_string()).or_insert(0) += 1
CountLine ==
  /\ pc = "line"
  /\ freqs' = Bump(freqs, line)
  /\ pc' = "lines"
  /\ UNCHANGED << input, given, option, pos, line, rest, result >>

\* lines() is exhausted: count returns freqs.
Return ==
  /\ pc = "lines"
  /\ LinesNext(input, pos).kind = "none"
  /\ result' = {freqs}
  /\ pc' = "done"
  /\ UNCHANGED << input, given, option, pos, line, rest, freqs >>

Next ==
  \/ NextLineOk
  \/ NextLineErr
  \/ CountChar
  \/ CharsEnd
  \/ CountWord
  \/ WordsEnd
  \/ CountLine
  \/ Return

Spec == Init /\ [][Next]_vars

TypeOK ==
  /\ option \in CountOption
  /\ pos \in 0..Len(input)
  /\ pc \in {"lines", "chars", "words", "line", "done", "panicked"}
  /\ Cardinality(result) <= 1

(***************************************************************************)
(* count as a function of its arguments: the same loop, run to its end.    *)
(* {} stands for the panic, {m} for the returned map m.                    *)
(***************************************************************************)

RECURSIVE CountChars(_, _)
CountChars(s, f) ==
  IF s = << >> THEN f
  ELSE LET n == CharsNext(s) IN CountChars(n.rest, Bump(f, EncodeUtf8(n.ch)))

RECURSIVE CountWords(_, _)
CountWords(s, f) ==
  LET m == Find(s) IN
  IF m.start = m.end THEN f
  ELSE CountWords(SubSeq(s, m.end, Len(s)),
                  Bump(f, SubSeq(s, m.start, m.end - 1)))

\* The body of the for loop, for one line.
CountOneLine(l, opt, f) ==
  IF opt = "Char" THEN CountChars(l, f)
  ELSE IF opt = "Word" THEN CountWords(l, f)
  ELSE Bump(f, l)

RECURSIVE CountFrom(_, _, _, _)
CountFrom(in, opt, p, f) ==
  LET r == LinesNext(in, p) IN
  IF r.kind = "none" THEN {f}
  ELSE IF r.kind = "err" THEN {}
  ELSE CountFrom(in, opt, r.pos, CountOneLine(r.line, opt, f))

count(in, opt) == CountFrom(in, opt, 0, EmptyMap)

(***************************************************************************)
(* What the documentation promises, stated without the code's algorithms   *)
(***************************************************************************)

\* The scalar sequences whose UTF-8 encoding is s (at most one).
RECURSIVE Parses(_)
Parses(s) ==
  IF s = << >> THEN {<< >>}
  ELSE UNION { {<< c >> \o t : t \in Parses(SubSeq(s, Len(EncodeUtf8(c)) + 1, Len(s)))} :
               c \in {d \in Scalars :
                        /\ Len(EncodeUtf8(d)) <= Len(s)
                        /\ SubSeq(s, 1, Len(EncodeUtf8(d))) = EncodeUtf8(d)} }

Decodable(s) == Parses(s) # {}

ScalarsOf(s) == CHOOSE cs \in Parses(s) : TRUE

RECURSIVE Utf8(_)
Utf8(cs) == IF cs = << >> THEN << >> ELSE EncodeUtf8(Head(cs)) \o Utf8(Tail(cs))

\* Where the lines of the byte string in start.
LineStarts(in) == {s \in 1..Len(in) : s = 1 \/ in[s - 1] = 10}

\* The position of the \n that ends the line starting at s, Len(in) + 1 if
\* the line is not terminated.
LineEnd(in, s) ==
  LET nl == {i \in s..Len(in) : in[i] = 10} IN
  IF nl = {} THEN Len(in) + 1 ELSE CHOOSE i \in nl : \A j \in nl : i <= j

\* The line starting at s, with its terminator.
RawLineAt(in, s) ==
  LET e == LineEnd(in, s) IN SubSeq(in, s, IF e > Len(in) THEN Len(in) ELSE e)

\* The line starting at s, without its terminator (\n or \r\n).
LineTextAt(in, s) ==
  LET e == LineEnd(in, s) IN
  IF e <= Len(in) /\ e - 1 >= s /\ in[e - 1] = 13
  THEN SubSeq(in, s, e - 2)
  ELSE SubSeq(in, s, e - 1)

\* The k-th line start.
NthStart(in, k) ==
  CHOOSE s \in LineStarts(in) : Cardinality({t \in LineStarts(in) : t < s}) = k - 1

NumLines(in) == Cardinality(LineStarts(in))

\* The texts of the lines, in input order.
LineTexts(in) == [k \in 1..NumLines(in) |-> LineTextAt(in, NthStart(in, k))]

AllDecodable(in) == \A s \in LineStarts(in) : Decodable(RawLineAt(in, s))

\* The table of a sequence of units: each unit with its number of occurrences.
TableOf(units) ==
  [k \in {units[i] : i \in DOMAIN units} |->
     Cardinality({i \in DOMAIN units : units[i] = k})]

RECURSIVE SumOver(_, _)
SumOver(f, S) ==
  IF S = {} THEN 0
  ELSE LET k == CHOOSE x \in S : TRUE IN f[k] + SumOver(f, S \ {k})

\* The sum of all counts of a table.
Total(f) == SumOver(f, DOMAIN f)

\* The key-wise sum of two tables.
TableSum(f, g) ==
  [k \in (DOMAIN f) \cup (DOMAIN g) |->
     (IF k \in DOMAIN f THEN f[k] ELSE 0) + (IF k \in DOMAIN g THEN g[k] ELSE 0)]

RECURSIVE Flatten(_)
Flatten(ss) == IF ss = << >> THEN << >> ELSE Head(ss) \o Flatten(Tail(ss))

\* The maximal runs of scalar values of class 1 in cs, as <<first, last>>;
\* cls[i] = 1 iff cs[i] belongs to the class.
MaximalRuns(cls) ==
  {r \in (DOMAIN cls) \X (DOMAIN cls) :
     /\ r[1] <= r[2]
     /\ \A i \in r[1]..r[2] : cls[i] = 1
     /\ (r[1] = 1 \/ cls[r[1] - 1] = 0)
     /\ (r[2] = Len(cls) \/ cls[r[2] + 1] = 0)}

\* The runs as strings, left to right.
RunStrings(cs, cls) ==
  LET R == MaximalRuns(cls)
      nth(k) == CHOOSE r \in R : Cardinality({q \in R : q[1] < r[1]}) = k - 1
  IN [k \in 1..Cardinality(R) |-> Utf8(SubSeq(cs, nth(k)[1], nth(k)[2]))]

\* Letters and numbers.
IsAlphanumeric(c) ==
  GeneralCategory(c) \in {"Lu", "Ll", "Lt", "Lm", "Lo", "Nd", "Nl", "No"}

\* The tokens of a line: runs of alphanumeric characters and underscores.
AlnumTokens(l) ==
  LET cs == ScalarsOf(l) IN
  RunStrings(cs, [i \in DOMAIN cs |->
                    IF IsAlphanumeric(cs[i]) \/ cs[i] = 95 THEN 1 ELSE 0])

\* The tokens of a line: runs of characters of the class \w.
WordTokens(l) ==
  LET cs == ScalarsOf(l) IN
  RunStrings(cs, [i \in DOMAIN cs |-> IF IsWordChar(cs[i]) THEN 1 ELSE 0])

\* The characters of a line, each as a string.
CharUnits(l) ==
  LET cs == ScalarsOf(l) IN [i \in DOMAIN cs |-> EncodeUtf8(cs[i])]

\* The units of a sequence of lines under an option.
UnitsOf(ls, opt) ==
  IF opt = "Char" THEN Flatten([i \in DOMAIN ls |-> CharUnits(ls[i])])
  ELSE IF opt = "Word" THEN Flatten([i \in DOMAIN ls |-> WordTokens(ls[i])])
  ELSE ls

Done == pc = "done"

Returned == CHOOSE m \in result : TRUE

\* The loop and the function agree.
CountAgrees == Done => result = count(input, option)

\* The function returns the documented table on decodable input.
CountIsTable ==
  Done => /\ AllDecodable(input)
          /\ result = {TableOf(UnitsOf(LineTexts(input), option))}

(***************************************************************************)
(* Claims                                                                  *)
(***************************************************************************)

\* The table the documentation promises for the input under an option.
Table(in, opt) == TableOf(UnitsOf(LineTexts(in), opt))

RECURSIVE SumLens(_)
SumLens(ss) == IF ss = << >> THEN 0 ELSE Len(Head(ss)) + SumLens(Tail(ss))

\* The number of matched units: scalar values, \w+ tokens or lines.
NumUnits(in, opt) ==
  LET ls == LineTexts(in) IN
  IF opt = "Char" THEN SumLens([i \in DOMAIN ls |-> ScalarsOf(ls[i])])
  ELSE IF opt = "Word" THEN SumLens([i \in DOMAIN ls |-> WordTokens(ls[i])])
  ELSE NumLines(in)

\* The first line that cannot be decoded starts here.
FirstBad(in) ==
  CHOOSE s \in LineStarts(in) :
    /\ ~Decodable(RawLineAt(in, s))
    /\ \A t \in LineStarts(in) : t < s => Decodable(RawLineAt(in, t))

\* C1, as stated: in Word mode count returns exactly the table of the
\* maximal runs of alphanumeric characters and underscores of each line.
C1_WordTableAlnum ==
  (Done /\ option = "Word") =>
    LET ls == LineTexts(input) IN
    result = {TableOf(Flatten([i \in DOMAIN ls |-> AlnumTokens(ls[i])]))}

\* C1, amended: on decodable input count(input, Word) returns, and returns
\* exactly the table of the maximal runs of \w characters (alphabetic, mark,
\* decimal digit, connector punctuation, join control) of each line; every key
\* is such a run, characters outside the class give no key.
C1_WordTable ==
  /\ (option = "Word" /\ AllDecodable(input)) => pc # "panicked"
  /\ (Done /\ option = "Word") =>
       /\ AllDecodable(input)
       /\ result = {Table(input, "Word")}
       /\ \A k \in DOMAIN Returned :
            /\ k # << >>
            /\ \A i \in DOMAIN ScalarsOf(k) : IsWordChar(ScalarsOf(k)[i])

\* A token seen twice on one line, a separator between the two.
C1_Witness ==
  /\ Done
  /\ option = "Word"
  /\ NumLines(input) = 1
  /\ \E k \in DOMAIN Returned : Returned[k] = 2
  /\ \E i \in DOMAIN input : input[i] = 32

\* C2: an undecodable line makes count panic, in every mode and wherever
\* the line is: count never returns, the read of the first bad line fails
\* (it yields neither a line nor the end of the stream), the reader never
\* gets past that line, and at the panic the map holds the lines before it
\* and is handed to nobody.
C2_DecodingFailureIsFatal ==
  /\ pc = "panicked" => ~AllDecodable(input)
  /\ ~AllDecodable(input) =>
       LET s == FirstBad(input)
           e == LineEnd(input, s)
           last == IF e > Len(input) THEN Len(input) ELSE e
       IN /\ ~Done
          /\ result = {}
          /\ pos <= last
          /\ (pc = "lines" /\ pos = s - 1) => LinesNext(input, pos).kind = "err"
          /\ pc = "panicked" =>
               /\ pos = last
               /\ freqs = Table(SubSeq(input, 1, s - 1), option)

\* A bad line after a counted line and before another line.
C2_Witness ==
  /\ pc = "panicked"
  /\ freqs # EmptyMap
  /\ pos < Len(input)
  /\ result = {}

\* C3: the counts of the returned table add up to the number of matched
\* units of the mode (scalar values, \w+ tokens, lines).
C3_SumInvariant ==
  /\ AllDecodable(input) => pc # "panicked"
  /\ Done => Total(Returned) = NumUnits(input, option)

\* Three units or more, one of them repeated.
C3_Witness ==
  /\ Done
  /\ Total(Returned) >= 3
  /\ Cardinality(DOMAIN Returned) < Total(Returned)
  /\ Cardinality(DOMAIN Returned) >= 2

\* C4: in Line mode every line is one unit keyed by its text without the
\* terminator, the empty line included; no key holds a \n; an unterminated
\* last line counts as the same line terminated.
C4_LineMode ==
  (Done /\ option = "Line") =>
    /\ result = {TableOf(LineTexts(input))}
    /\ Total(Returned) = NumLines(input)
    /\ \A k \in DOMAIN Returned : \A i \in DOMAIN k : k[i] # 10
    /\ (input # << >> /\ input[Len(input)] # 10) =>
         count(input \o << 13, 10 >>, "Line") = result

\* Two empty lines, one of them ended by \r\n, and an unterminated last line.
C4_Witness ==
  /\ Done
  /\ option = "Line"
  /\ << >> \in DOMAIN Returned
  /\ Returned[<< >>] = 2
  /\ \E i \in DOMAIN input : input[i] = 13 /\ i < Len(input) /\ input[i + 1] = 10
  /\ input[Len(input)] \notin {10, 13}

\* C5: in Char mode every key is one scalar value, never the \n, and its
\* count is the number of occurrences of the scalar value in the lines.
C5_CharMode ==
  (Done /\ option = "Char") =>
    /\ result = {Table(input, "Char")}
    /\ \A k \in DOMAIN Returned :
         /\ Decodable(k)
         /\ Len(ScalarsOf(k)) = 1
         /\ k # << 10 >>
         /\ LET ls == LineTexts(input) IN
            Returned[k] =
              Cardinality({ij \in (DOMAIN ls) \X (1..MaxLen + 1) :
                             /\ ij[2] <= Len(ScalarsOf(ls[ij[1]]))
                             /\ ScalarsOf(ls[ij[1]])[ij[2]] = ScalarsOf(k)[1]})

\* A line holding a two-byte character twice.
C5_Witness ==
  /\ Done
  /\ option = "Char"
  /\ \E k \in DOMAIN Returned : Len(k) = 2 /\ Returned[k] = 2

\* C6: on empty input nothing is ever counted and count returns the empty
\* map, whatever the mode.
C6_EmptyInput ==
  input = << >> =>
    /\ freqs = EmptyMap
    /\ pc \in {"lines", "done"}
    /\ Done => result = {EmptyMap}

C6_Witness == input = << >> /\ Done /\ DOMAIN Returned = {}

\* The lines, each ended by \r\n.
JoinLines(ls) == Flatten([i \in DOMAIN ls |-> ls[i] \o << 13, 10 >>])

\* C7: count returns the same table for every input whose lines are the
\* lines of this input in another order.
C7_OrderInsensitive ==
  Done =>
    LET ls == LineTexts(input) IN
    \A p \in Permutations(DOMAIN ls) :
      count(JoinLines([i \in DOMAIN ls |-> ls[p[i]]]), option) = result

\* Three lines, the first two different.
C7_Witness ==
  /\ Done
  /\ NumLines(input) >= 3
  /\ LineTexts(input)[1] # LineTexts(input)[2]
  /\ Cardinality(DOMAIN Returned) >= 2

\* C8: the option a caller gets without naming one is Word, and the
\* options are Char, Word and Line and nothing else.
C8_DefaultIsWord ==
  /\ CountOption = {"Char", "Word", "Line"}
  /\ Cardinality(CountOption) = 3
  /\ option \in CountOption
  /\ given = Unspecified =>
       /\ option = "Word"
       /\ Done => result = {Table(input, "Word")}

\* A call without an option whose result no other option gives.
C8_Witness ==
  /\ Done
  /\ given = Unspecified
  /\ result # {EmptyMap}
  /\ result # count(input, "Char")
  /\ result # count(input, "Line")

\* The unit the next step of the pass processes, if it processes one.
NextUnit ==
  IF pc = "chars" /\ rest # << >> THEN {CharUnits(rest)[1]}
  ELSE IF pc = "words" /\ WordTokens(rest) # << >> THEN {WordTokens(rest)[1]}
  ELSE IF pc = "line" THEN {line}
  ELSE {}

C9_Step ==
  /\ NextUnit = {} => freqs' = freqs
  /\ \A u \in NextUnit :
       /\ DOMAIN freqs' = (DOMAIN freqs) \cup {u}
       /\ freqs'[u] = (IF u \in DOMAIN freqs THEN freqs[u] ELSE 0) + 1
       /\ \A k \in (DOMAIN freqs) \ {u} : freqs'[k] = freqs[k]
  /\ \A k \in DOMAIN freqs : k \in DOMAIN freqs' /\ freqs'[k] >= freqs[k]
  /\ \A k \in DOMAIN freqs' : freqs'[k] >= 1
  /\ result' # result => (result = {} /\ result' = {freqs} /\ freqs' = freqs)
  /\ \A m \in result' : \A k \in DOMAIN m : m[k] >= 1

\* C9: a step that processes a unit raises that unit's count by one (a new
\* key enters with 1) and leaves every other key alone; no other step touches
\* the map; so no key leaves, no count falls, every count is at least 1, in
\* the map and in the returned table.
C9_BumpOnly == [][C9_Step]_vars

\* In the middle of a pass: one key seen twice, another key present.
C9_Witness ==
  /\ pc \in {"chars", "words"}
  /\ rest # << >>
  /\ Cardinality(DOMAIN freqs) >= 2
  /\ \E k \in DOMAIN freqs : freqs[k] = 2

\* C10: cut the input after any line: the table of the whole is the
\* key-wise sum of the tables of the two parts, so nothing is carried from
\* one line to the next; and a second call on the input returns the same table.
C10_Additive ==
  Done =>
    /\ result = count(input, option)
    /\ \A e \in {0, Len(input)} \cup {i \in DOMAIN input : input[i] = 10} :
         LET a == count(SubSeq(input, 1, e), option)
             b == count(SubSeq(input, e + 1, Len(input)), option)
         IN /\ a # {}
            /\ b # {}
            /\ result = {TableSum(m, n) : m \in a, n \in b}

\* Word mode, a word character on each side of a line break.
C10_Witness ==
  /\ Done
  /\ option = "Word"
  /\ \E i \in DOMAIN input :
       /\ i > 1
       /\ i < Len(input)
       /\ input[i] = 10
       /\ input[i - 1] \in {95, 97}
       /\ input[i + 1] \in {95, 97}
  /\ \E k \in DOMAIN Returned : Returned[k] = 2

====
